---------------------------- MODULE Spec2Model ----------------------------
(***************************************************************************)
(* Model of computeSales.py: two JSON documents (a catalog and a sales     *)
(* ledger) are loaded, calcular_costo_total joins them and accumulates a   *)
(* total while collecting record-level errors, main renders the result on  *)
(* the console and escribir_archivo writes it to SalesResults.txt.         *)
(*                                                                         *)
(* Python values are tagged records (t = "None" | "num" | "str").  Money   *)
(* is counted in thousandths of the currency unit; the prices of the model *)
(* are multiples of 0.125, which binary floating point represents exactly, *)
(* so that quantity * price and the running sum are exact and round(x, 2)  *)
(* is round-half-to-even on the exact value.                               *)
(***************************************************************************)
EXTENDS Integers, Sequences, FiniteSets, TLC

VARIABLES
    pc,           \* position of the run; "raised_calc" / "raised_main": an uncaught
                  \* exception left calcular_costo_total / the rest of main
    argc,         \* len(sys.argv)
    catalogo,     \* result of leer_archivo_json(sys.argv[1])
    ventas,       \* result of leer_archivo_json(sys.argv[2])
    errores,      \* the list the caller hands to calcular_costo_total
    errores0,     \* history: errores as it was when the function was entered
    errSrc,       \* history: index of the sales record behind each appended error
    costo_total,  \* local costo_total of the function, then of main
    contrib,      \* history: <<index, subtotal>> of each addition to costo_total
    i,            \* index of the next sales record of the running for loop
    tiempo,       \* tiempo_transcurrido
    console,      \* lines printed on standard output
    rowSrc,       \* history: index of the sales record behind each console row
    file,         \* SalesResults.txt: exists, lines
    fileOpens,    \* how many times SalesResults.txt was opened for writing
    exitStatus    \* process exit status, -1 while running

vars == <<pc, argc, catalogo, ventas, errores, errores0, errSrc, costo_total,
          contrib, i, tiempo, console, rowSrc, file, fileOpens, exitStatus>>

-----------------------------------------------------------------------------
(* Bounds of the model *)

MaxCatalog == 2

MaxSales == 2

-----------------------------------------------------------------------------
(* Python values *)

PyNone == [t |-> "None", n |-> 0, s |-> ""]

PyNum(k) == [t |-> "num", n |-> k, s |-> ""]

PyStr(x) == [t |-> "str", n |-> 0, s |-> x]

TypeError == [t |-> "TypeError", n |-> 0, s |-> ""]

\* Python truthiness: None, 0 and "" are falsy
Truthy(v) ==
    CASE v.t = "None" -> FALSE
      [] v.t = "num"  -> v.n # 0
      [] v.t = "str"  -> v.s # ""
      [] OTHER        -> TRUE

\* quantity * price, the price being a float or None: only number * number
\* is defined (str * float and anything with None raise TypeError)
Mul(q, p) ==
    IF q.t = "num" /\ p.t = "num" THEN PyNum(q.n * p.n) ELSE TypeError

\* costo_total = subtotal instead of +=
AddOverwrites(a, b) ==
    IF a.t = "num" /\ b.t = "num" THEN PyNum(b.n) ELSE TypeError

\* costo_total += subtotal
Add(a, b) ==
    IF a.t = "num" /\ b.t = "num" THEN PyNum(a.n + b.n) ELSE TypeError

\* round(x, 2) on an amount in thousandths: to the nearest multiple of 10,
\* an exact tie going to the even hundredth
RoundThousandths(x) ==
    LET r == x % 10
        lo == x - r
    IN  IF r < 5 THEN lo
        ELSE IF r > 5 THEN lo + 10
        ELSE IF (lo \div 10) % 2 = 0 THEN lo ELSE lo + 10

Round2(v) == IF v.t = "num" THEN PyNum(RoundThousandths(v.n)) ELSE TypeError

\* a loaded collection, or the None leer_archivo_json returns on failure
NoneList == [none |-> TRUE, d |-> <<>>]

List(seq) == [none |-> FALSE, d |-> seq]

-----------------------------------------------------------------------------
(* Inputs *)

Products == {PyNone, PyStr("A"), PyStr("B")}

Quantities == {PyNone, PyNum(0), PyNum(3), PyStr("x")}

\* what product.get('title') and product.get('price') return: product A
\* without a price, at 0.125 and at 0.375, product B at 0.125
CatalogEntries ==
    {[title |-> PyStr("A"), price |-> PyNone],
     [title |-> PyStr("A"), price |-> PyNum(125)],
     [title |-> PyStr("A"), price |-> PyNum(375)],
     [title |-> PyStr("B"), price |-> PyNum(125)]}

\* what item.get('Product') and item.get('Quantity') return
SaleRecords == [Product : Products, Quantity : Quantities]

SeqsUpTo(S, n) == UNION {[1..k -> S] : k \in 0..n}

Catalogs == SeqsUpTo(CatalogEntries, MaxCatalog)

SalesLists == SeqsUpTo(SaleRecords, MaxSales)

ArgCounts == {2, 3, 4}

\* time.time() - hora_inicio, an opaque measurement
Elapsed == {"elapsed"}

LoadFailures == {"FileNotFoundError", "JSONDecodeError", "Exception"}

\* the SalesResults.txt an earlier run left in the working directory
StaleFile == [exists |-> TRUE, lines |-> <<[kind |-> "stale"]>>]

-----------------------------------------------------------------------------
(* Helpers of the reconciliation *)

\* [product for product in catalogo if product.get('title') == producto]
RECURSIVE Cruce(_, _)
Cruce(cat, producto) ==
    IF cat = <<>> THEN <<>>
    ELSE IF Head(cat).title = producto
         THEN <<Head(cat)>> \o Cruce(Tail(cat), producto)
         ELSE Cruce(Tail(cat), producto)

\* coincidente = cruce[-1]
CoincidenteLast(cruce) == cruce[Len(cruce)]

\* coincidente = cruce[0]
Coincidente(cruce) == cruce[1]

ErrNoPrice(producto) == [kind |-> "no_price", producto |-> producto.s]

ErrNotFound(producto) == [kind |-> "not_found", producto |-> producto.s]

ErrMissingField == [kind |-> "missing_field", producto |-> ""]

\* errores.insert(0, msg)
AppendErrorInFront(errs, msg) == <<msg>> \o errs

\* errores = [msg]
AppendErrorResets(errs, msg) == <<msg>>

\* errores.append(msg)
AppendError(errs, msg) == Append(errs, msg)

\* One iteration of the for loop of calcular_costo_total on item, with the
\* running total: the new total, the error appended (if any), whether the
\* iteration raised.
Iteracion(cat, item, total) ==
    LET producto == item.Product
        quantity == item.Quantity
        cruce    == Cruce(cat, producto)
        none     == [total |-> total, err |-> <<>>, added |-> <<>>, raised |-> FALSE]
    IN  IF Truthy(producto) /\ Truthy(quantity)
        THEN IF cruce # <<>>
             THEN LET price == Coincidente(cruce).price
                  IN  IF price.t # "None"
                      THEN LET subtotal == Mul(quantity, price)
                               sum      == Add(total, subtotal)
                           IN  IF subtotal.t = "TypeError" \/ sum.t = "TypeError"
                               THEN [none EXCEPT !.raised = TRUE]
                               ELSE [none EXCEPT !.total = sum,
                                                 !.added = <<subtotal.n>>]
                      ELSE [none EXCEPT !.err = <<ErrNoPrice(producto)>>]
             ELSE [none EXCEPT !.err = <<ErrNotFound(producto)>>]
        ELSE [none EXCEPT !.err = <<ErrMissingField>>]

-----------------------------------------------------------------------------
(* Rendering *)

Text(s) == [kind |-> s]

ErrorLine(e) == [kind |-> "error", msg |-> e]

TotalLine(costo_form) == [kind |-> "total", costo_form |-> costo_form]

ElapsedLine(t) == [kind |-> "elapsed", t |-> t]

\* costo_form = f"${costo_total:,.2f}"
CostoForm(total) == [symbol |-> "$", amount |-> total.n]

\* the row of the console: "{producto:<40} {quantity:^10} {price:^15} {subtotal:^15}"
ConsoleRow(producto, quantity, price, subtotal) ==
    [kind |-> "row", producto |-> producto, quantity |-> quantity,
     price |-> price, subtotal |-> subtotal, seps |-> <<" ", " ", " ">>]

\* the row of the file: "{producto:<40} {quantity:^10}{price:^15} {subtotal:^15}\n"
FileRow(producto, quantity, price, subtotal) ==
    [kind |-> "row", producto |-> producto, quantity |-> quantity,
     price |-> price, subtotal |-> subtotal, seps |-> <<" ", "", " ">>]

\* The body of the rendering loop for one item: the row (if any), whether
\* round(quantity * price, 2) raised.
Render(cat, item, isFile) ==
    LET producto == item.Product
        quantity == item.Quantity
        cruce    == Cruce(cat, producto)
    IN  IF cruce # <<>>
        THEN LET price    == Coincidente(cruce).price
                 subtotal == Round2(Mul(quantity, price))
             IN  IF subtotal.t = "TypeError"
                 THEN [row |-> <<>>, raised |-> TRUE]
                 ELSE [row |-> <<IF isFile
                                 THEN FileRow(producto, quantity, price, subtotal)
                                 ELSE ConsoleRow(producto, quantity, price, subtotal)>>,
                       raised |-> FALSE]
        ELSE [row |-> <<>>, raised |-> FALSE]

\* the rows escribir_archivo writes for items k.. of ventas, up to a raise
RECURSIVE FileRows(_, _, _)
FileRows(cat, vs, k) ==
    IF k > Len(vs) THEN [lines |-> <<>>, raised |-> FALSE]
    ELSE LET r == Render(cat, vs[k], TRUE)
         IN  IF r.raised THEN [lines |-> <<>>, raised |-> TRUE]
             ELSE LET rest == FileRows(cat, vs, k + 1)
                  IN  [lines |-> r.row \o rest.lines, raised |-> rest.raised]

RECURSIVE ErrorLines(_)
ErrorLines(errs) ==
    IF errs = <<>> THEN <<>>
    ELSE <<ErrorLine(Head(errs))>> \o ErrorLines(Tail(errs))

-----------------------------------------------------------------------------
(* The run *)

Init ==
    /\ pc = "args"
    /\ argc \in ArgCounts
    /\ catalogo = NoneList
    /\ ventas = NoneList
    /\ errores = <<>>
    /\ errores0 = <<>>
    /\ errSrc = <<>>
    /\ costo_total = PyNone
    /\ contrib = <<>>
    /\ i = 0
    /\ tiempo = "unset"
    /\ console = <<>>
    /\ rowSrc = <<>>
    /\ file = StaleFile
    /\ fileOpens = 0
    /\ exitStatus = -1

\* main: if len(sys.argv) != 3: print usage; sys.exit(1)
Main_CheckArgs ==
    /\ pc = "args"
    /\ IF argc # 3
       THEN /\ console' = Append(console, Text("usage"))
            /\ exitStatus' = 1
            /\ pc' = "exit"
       ELSE /\ pc' = "load1"
            /\ UNCHANGED <<console, exitStatus>>
    /\ UNCHANGED <<argc, catalogo, ventas, errores, errores0, errSrc, costo_total,
                   contrib, i, tiempo, rowSrc, file, fileOpens>>

\* leer_archivo_json returning an empty list, not None, on failure
LeerDefaults(data, failure) ==
    IF failure = "" THEN [result |-> List(data), out |-> <<>>]
    ELSE [result |-> List(<<>>), out |-> <<Text(failure)>>]

\* leer_archivo_json: the data, or a message and None
Leer(data, failure) ==
    IF failure = "" THEN [result |-> List(data), out |-> <<>>]
    ELSE [result |-> NoneList, out |-> <<Text(failure)>>]

\* catalogo = leer_archivo_json(ruta_archivo1)
Leer_Catalogo ==
    /\ pc = "load1"
    /\ \E data \in Catalogs, failure \in LoadFailures \cup {""} :
          /\ failure # "" => data = <<>>
          /\ catalogo' = Leer(data, failure).result
          /\ console' = console \o Leer(data, failure).out
    /\ pc' = "load2"
    /\ UNCHANGED <<argc, ventas, errores, errores0, errSrc, costo_total, contrib,
                   i, tiempo, rowSrc, file, fileOpens, exitStatus>>

\* ventas = leer_archivo_json(ruta_archivo2)
Leer_Ventas ==
    /\ pc = "load2"
    /\ \E data \in SalesLists, failure \in LoadFailures \cup {""} :
          /\ failure # "" => data = <<>>
          /\ ventas' = Leer(data, failure).result
          /\ console' = console \o Leer(data, failure).out
    /\ pc' = "guard"
    /\ UNCHANGED <<argc, catalogo, errores, errores0, errSrc, costo_total, contrib,
                   i, tiempo, rowSrc, file, fileOpens, exitStatus>>

\* main: if catalogo is not None and ventas is not None: errores = [] ...
\* otherwise main returns and the interpreter exits with status 0
Main_Guard ==
    /\ pc = "guard"
    /\ IF ~catalogo.none /\ ~ventas.none
       THEN /\ errores' = <<>>
            /\ errores0' = <<>>
            /\ pc' = "calc_call"
            /\ UNCHANGED exitStatus
       ELSE /\ exitStatus' = 0
            /\ pc' = "exit"
            /\ UNCHANGED <<errores, errores0>>
    /\ UNCHANGED <<argc, catalogo, ventas, errSrc, costo_total, contrib, i, tiempo,
                   console, rowSrc, file, fileOpens>>

\* calcular_costo_total: the None check and costo_total = 0
Calcular_Enter ==
    /\ pc = "calc_call"
    /\ IF catalogo.none \/ ventas.none
       THEN /\ costo_total' = PyNone
            /\ pc' = "calc_ret"
            /\ UNCHANGED i
       ELSE /\ costo_total' = PyNum(0)
            /\ i' = 1
            /\ pc' = "calc_loop"
    /\ UNCHANGED <<argc, catalogo, ventas, errores, errores0, errSrc, contrib,
                   tiempo, console, rowSrc, file, fileOpens, exitStatus>>

\* calcular_costo_total: one iteration of for item in ventas
Calcular_Iter ==
    /\ pc = "calc_loop"
    /\ i <= Len(ventas.d)
    /\ LET r == Iteracion(catalogo.d, ventas.d[i], costo_total)
       IN  IF r.raised
           THEN /\ pc' = "raised_calc"
                /\ exitStatus' = 1
                /\ UNCHANGED <<errores, errSrc, costo_total, contrib, i>>
           ELSE /\ costo_total' = r.total
                /\ errores' = IF r.err # <<>> THEN AppendError(errores, r.err[1])
                              ELSE errores
                /\ errSrc' = IF r.err # <<>> THEN Append(errSrc, i) ELSE errSrc
                /\ contrib' = IF r.added # <<>> THEN Append(contrib, <<i, r.added[1]>>)
                              ELSE contrib
                /\ i' = i + 1
                /\ UNCHANGED <<pc, exitStatus>>
    /\ UNCHANGED <<argc, catalogo, ventas, errores0, tiempo, console, rowSrc, file,
                   fileOpens>>

\* calcular_costo_total: return costo_total
Calcular_Return ==
    /\ pc = "calc_loop"
    /\ i > Len(ventas.d)
    /\ pc' = "calc_ret"
    /\ UNCHANGED <<argc, catalogo, ventas, errores, errores0, errSrc, costo_total,
                   contrib, i, tiempo, console, rowSrc, file, fileOpens, exitStatus>>

\* main: costo_total = round(calcular_costo_total(...), 2); tiempo_transcurrido
Main_Round ==
    /\ pc = "calc_ret"
    /\ IF Round2(costo_total).t = "TypeError"
       THEN /\ pc' = "raised_main"
            /\ exitStatus' = 1
            /\ UNCHANGED <<costo_total, tiempo>>
       ELSE /\ costo_total' = Round2(costo_total)
            /\ tiempo' \in Elapsed
            /\ pc' = "print_errors"
            /\ UNCHANGED exitStatus
    /\ UNCHANGED <<argc, catalogo, ventas, errores, errores0, errSrc, contrib, i,
                   console, rowSrc, file, fileOpens>>

\* main: the error block, then the heading of the table
Main_PrintHead ==
    /\ pc = "print_errors"
    /\ console' = console
                  \o (IF Len(errores) > 0
                      THEN <<Text("Se presentaron los siguientes errores:")>>
                           \o ErrorLines(errores)
                      ELSE <<>>)
                  \o <<Text("Resultado de las ventas:"), Text("heading"), Text("rule")>>
    /\ i' = 1
    /\ pc' = "print_rows"
    /\ UNCHANGED <<argc, catalogo, ventas, errores, errores0, errSrc, costo_total,
                   contrib, tiempo, rowSrc, file, fileOpens, exitStatus>>

\* main: one iteration of the loop that prints the rows
Main_PrintRow ==
    /\ pc = "print_rows"
    /\ i <= Len(ventas.d)
    /\ LET r == Render(catalogo.d, ventas.d[i], FALSE)
       IN  IF r.raised
           THEN /\ pc' = "raised_main"
                /\ exitStatus' = 1
                /\ UNCHANGED <<console, rowSrc, i>>
           ELSE /\ console' = console \o r.row
                /\ rowSrc' = IF r.row # <<>> THEN Append(rowSrc, i) ELSE rowSrc
                /\ i' = i + 1
                /\ UNCHANGED <<pc, exitStatus>>
    /\ UNCHANGED <<argc, catalogo, ventas, errores, errores0, errSrc, costo_total,
                   contrib, tiempo, file, fileOpens>>

\* main: the rule, the total and the elapsed time
Main_PrintTail ==
    /\ pc = "print_rows"
    /\ i > Len(ventas.d)
    /\ console' = console \o <<Text("rule"), TotalLine(CostoForm(costo_total)),
                               ElapsedLine(tiempo)>>
    /\ pc' = "write_file"
    /\ UNCHANGED <<argc, catalogo, ventas, errores, errores0, errSrc, costo_total,
                   contrib, i, tiempo, rowSrc, file, fileOpens, exitStatus>>

\* escribir_archivo without the error block
ContenidoNoErrors(costo_form, t, vs, cat, errs) ==
    LET rows == FileRows(cat, vs, 1)
    IN  [lines |-> <<Text("Resultado de las ventas:"), Text("heading"), Text("rule")>>
                   \o rows.lines
                   \o <<Text("rule"), TotalLine(costo_form), ElapsedLine(t)>>,
         raised |-> rows.raised]

\* what escribir_archivo leaves in SalesResults.txt, opened with mode 'w'
Contenido(costo_form, t, vs, cat, errs) ==
    LET head == (IF Len(errs) > 0
                 THEN <<Text("Se presentaron errores:")>> \o ErrorLines(errs)
                 ELSE <<>>)
                \o <<Text("Resultado de las ventas:"), Text("heading"), Text("rule")>>
        rows == FileRows(cat, vs, 1)
    IN  IF rows.raised
        THEN [lines |-> head \o rows.lines, raised |-> TRUE]
        ELSE [lines |-> head \o rows.lines
                        \o <<Text("rule"), TotalLine(costo_form), ElapsedLine(t)>>,
              raised |-> FALSE]

\* main: escribir_archivo(costo_form, tiempo_transcurrido, ventas, catalogo, errores)
Escribir_Archivo ==
    /\ pc = "write_file"
    /\ LET w == Contenido(CostoForm(costo_total), tiempo, ventas.d, catalogo.d, errores)
       IN  /\ file' = [exists |-> TRUE, lines |-> w.lines]
           /\ fileOpens' = fileOpens + 1
           /\ IF w.raised
              THEN pc' = "raised_main" /\ exitStatus' = 1
              ELSE pc' = "done" /\ exitStatus' = 0
    /\ UNCHANGED <<argc, catalogo, ventas, errores, errores0, errSrc, costo_total,
                   contrib, i, tiempo, console, rowSrc>>

Next ==
    \/ Main_CheckArgs
    \/ Leer_Catalogo
    \/ Leer_Ventas
    \/ Main_Guard
    \/ Calcular_Enter
    \/ Calcular_Iter
    \/ Calcular_Return
    \/ Main_Round
    \/ Main_PrintHead
    \/ Main_PrintRow
    \/ Main_PrintTail
    \/ Escribir_Archivo

Spec == Init /\ [][Next]_vars

-----------------------------------------------------------------------------
(* calcular_costo_total on its own, called with any catalog, any sales     *)
(* collection (each possibly None) and a list that may already hold errors *)

PriorError == [kind |-> "prior", producto |-> ""]

PriorErrors == {<<>>, <<PriorError>>}

InitCalc ==
    /\ pc = "calc_call"
    /\ argc = 3
    /\ catalogo \in {NoneList} \cup {List(c) : c \in Catalogs}
    /\ ventas \in {NoneList} \cup {List(v) : v \in SalesLists}
    /\ errores \in PriorErrors
    /\ errores0 = errores
    /\ errSrc = <<>>
    /\ costo_total = PyNone
    /\ contrib = <<>>
    /\ i = 0
    /\ tiempo = "unset"
    /\ console = <<>>
    /\ rowSrc = <<>>
    /\ file = StaleFile
    /\ fileOpens = 0
    /\ exitStatus = -1

NextCalc ==
    \/ Calcular_Enter
    \/ Calcular_Iter
    \/ Calcular_Return

CalcSpec == InitCalc /\ [][NextCalc]_vars

-----------------------------------------------------------------------------
(* Vocabulary of the properties *)

Range(seq) == {seq[k] : k \in 1..Len(seq)}

StrictlyIncreasing(seq) == \A a, b \in 1..Len(seq) : a < b => seq[a] < seq[b]

IsPrefix(a, b) == Len(a) <= Len(b) /\ SubSeq(b, 1, Len(a)) = a

IsRow(line) == line.kind = "row"

IsErrorLine(line) == line.kind = "error"

\* the rows of a sink, without the separators of the rendering
RECURSIVE RowFields(_)
RowFields(lines) ==
    IF lines = <<>> THEN <<>>
    ELSE (IF IsRow(Head(lines))
          THEN <<<<Head(lines).producto, Head(lines).quantity,
                   Head(lines).price, Head(lines).subtotal>>>>
          ELSE <<>>) \o RowFields(Tail(lines))

\* the error messages of a sink
RECURSIVE ErrorsOf(_)
ErrorsOf(lines) ==
    IF lines = <<>> THEN <<>>
    ELSE (IF IsErrorLine(Head(lines)) THEN <<Head(lines).msg>> ELSE <<>>)
         \o ErrorsOf(Tail(lines))

LinesOfKind(lines, kinds) == {k \in 1..Len(lines) : lines[k].kind \in kinds}

\* the catalog positions whose title is the product
Matches(cat, producto) == {j \in 1..Len(cat) : cat[j].title = producto}

\* the earliest of them
FirstMatch(cat, producto) ==
    CHOOSE j \in Matches(cat, producto) : \A m \in Matches(cat, producto) : j <= m

Present(v) == v # PyNone /\ v # PyNum(0) /\ v # PyStr("")

\* a sale with Product and Quantity present and truthy, whose product is in
\* the catalog and whose first matching entry has a price
Priced(cat, item) ==
    /\ Present(item.Product)
    /\ Present(item.Quantity)
    /\ Matches(cat, item.Product) # {}
    /\ cat[FirstMatch(cat, item.Product)].price # PyNone

RECURSIVE SumPriced(_, _, _)
SumPriced(cat, vs, k) ==
    IF k = 0 THEN 0
    ELSE SumPriced(cat, vs, k - 1)
         + (IF Priced(cat, vs[k])
            THEN vs[k].Quantity.n * cat[FirstMatch(cat, vs[k].Product)].price.n
            ELSE 0)

\* the error a sale that is not Priced is reported with
ExpectedError(cat, item) ==
    IF ~(Present(item.Product) /\ Present(item.Quantity))
    THEN [kind |-> "missing_field", producto |-> ""]
    ELSE IF Matches(cat, item.Product) = {}
         THEN [kind |-> "not_found", producto |-> item.Product.s]
         ELSE [kind |-> "no_price", producto |-> item.Product.s]

Count(seq, x) == Cardinality({k \in 1..Len(seq) : seq[k] = x})

ContribSrc == [k \in 1..Len(contrib) |-> contrib[k][1]]

\* every sale has a number or nothing as its Quantity
WellTyped == \A k \in 1..Len(ventas.d) : ventas.d[k].Quantity.t # "str"

Loading == pc \in {"args", "load1", "load2", "guard"}

Raised == pc \in {"raised_calc", "raised_main"}

\* the loop of calcular_costo_total has gone past sales record k
Processed(k) ==
    \/ pc = "calc_loop" /\ k < i
    \/ pc \in {"calc_ret", "print_errors", "print_rows", "write_file", "done",
               "raised_main"}

-----------------------------------------------------------------------------
(* Properties *)

\* C1: in a complete run every sales record is handled in exactly one of two
\* ways: one contribution to the total and one row, or exactly one error and
\* neither, so that rows + errors = sales records.
C1_RowOrError ==
    pc = "done" =>
        /\ \A k \in 1..Len(ventas.d) :
              \/ /\ Count(ContribSrc, k) = 1
                 /\ Count(rowSrc, k) = 1
                 /\ Count(errSrc, k) = 0
              \/ /\ Count(ContribSrc, k) = 0
                 /\ Count(rowSrc, k) = 0
                 /\ Count(errSrc, k) = 1
        /\ Len(RowFields(console)) + Len(errores) = Len(ventas.d)

\* C2: the total calcular_costo_total returns, before main rounds it, is the
\* sum of quantity * price over exactly the Priced sales; a sale that got an
\* error is not Priced and added nothing.
C2_TotalIsSumOfPriced ==
    /\ pc = "calc_loop" =>
          costo_total = PyNum(SumPriced(catalogo.d, ventas.d, i - 1))
    /\ (pc = "calc_ret" /\ ~catalogo.none /\ ~ventas.none) =>
          costo_total = PyNum(SumPriced(catalogo.d, ventas.d, Len(ventas.d)))
    /\ \A k \in Range(errSrc) :
          /\ ~Priced(catalogo.d, ventas.d[k])
          /\ Count(ContribSrc, k) = 0
    /\ \A k \in Range(ContribSrc) : Priced(catalogo.d, ventas.d[k])

C2_Witness ==
    /\ pc = "calc_ret"
    /\ Len(contrib) = 1
    /\ costo_total.n > 0
    /\ \E k \in Range(errSrc) :
          /\ ventas.d[k].Quantity = PyNum(0)
          /\ Priced(catalogo.d, [ventas.d[k] EXCEPT !.Quantity = PyNum(3)])

\* C3: no row is rendered, on the console or in the file, for a sales record
\* that produced an error, and such a record has exactly one error.
C3_NoRowForErroredRecord ==
    /\ \A k \in Range(errSrc) : Count(errSrc, k) = 1 /\ Count(rowSrc, k) = 0
    /\ pc = "done" =>
          Len(RowFields(file.lines)) + Len(errSrc) <= Len(ventas.d)

\* C4: once both loads succeeded, record-level errors (missing field, unknown
\* product, missing price) never abort the run: with every Quantity a number
\* or absent, no exception ends it part-way.
C4_RunCompletes == WellTyped => ~Raised

\* C5 as claimed: every fatal condition ends the run with its message, a
\* non-zero exit status and no report written.
C5_FatalExitsNonZero ==
    pc = "exit" =>
        /\ exitStatus # 0
        /\ fileOpens = 0
        /\ console # <<>>

\* C5 as amended: a wrong argument count ends the run with the usage message
\* and status 1; a failed load prints its message, makes the run end with
\* status 0; in both cases nothing is reconciled and no report is written,
\* and the run goes past the guard only when both loads succeeded.
C5_FatalEndsWithoutReport ==
    /\ argc # 3 => pc \in {"args", "exit"}
    /\ (~Loading /\ pc # "exit") => (~catalogo.none /\ ~ventas.none)
    /\ (argc = 3 /\ pc \notin {"args", "load1", "load2"}) =>
          Cardinality(LinesOfKind(console, LoadFailures))
             = (IF catalogo.none THEN 1 ELSE 0) + (IF ventas.none THEN 1 ELSE 0)
    /\ pc = "exit" =>
          /\ fileOpens = 0
          /\ file = StaleFile
          /\ errores = <<>> /\ contrib = <<>> /\ rowSrc = <<>>
          /\ costo_total = PyNone
          /\ IF argc # 3
             THEN exitStatus = 1 /\ console = <<Text("usage")>>
             ELSE /\ exitStatus = 0
                  /\ catalogo.none \/ ventas.none
                  /\ LinesOfKind(console, LoadFailures) = 1..Len(console)

C5_Witness ==
    /\ pc = "exit"
    /\ argc = 3
    /\ catalogo.none
    /\ ~ventas.none
    /\ Len(ventas.d) = MaxSales
    /\ file = StaleFile

\* C6: errores and the rows keep the order of the sales input: the k-th
\* error is the error of a later record than the one before it, and so is
\* the k-th row, on the console and in the file.
C6_OrderPreserved ==
    LET onConsole == RowFields(console)
        inFile    == RowFields(file.lines)
    IN
    /\ StrictlyIncreasing(errSrc)
    /\ Len(errores) = Len(errSrc)
    /\ \A e \in 1..Len(errSrc) :
          errores[e] = ExpectedError(catalogo.d, ventas.d[errSrc[e]])
    /\ StrictlyIncreasing(rowSrc)
    /\ Len(onConsole) = Len(rowSrc)
    /\ \A r \in 1..Len(rowSrc) :
          /\ onConsole[r][1] = ventas.d[rowSrc[r]].Product
          /\ onConsole[r][2] = ventas.d[rowSrc[r]].Quantity
    /\ pc \in {"print_rows", "write_file", "done"} => ErrorsOf(console) = errores
    /\ pc = "done" =>
          /\ ErrorsOf(file.lines) = errores
          /\ Len(inFile) = Len(rowSrc)
          /\ \A r \in 1..Len(rowSrc) :
                /\ inFile[r][1] = ventas.d[rowSrc[r]].Product
                /\ inFile[r][2] = ventas.d[rowSrc[r]].Quantity

C6_Witness ==
    /\ pc = "done"
    /\ Len(errSrc) = 2
    /\ errores[1] # errores[2]

C6_WitnessRows ==
    /\ pc = "done"
    /\ Len(rowSrc) = 2
    /\ RowFields(console)[1] # RowFields(console)[2]

\* C7: the catalog entry used for a sale is the first one, in catalog order,
\* whose title equals the Product: its price makes the contribution to the
\* total and the row, and when it has no price the sale is reported as
\* having no price, whatever later entries of the same title say.
C7_FirstMatchWins ==
    /\ \A c \in Range(contrib) :
          LET item == ventas.d[c[1]]
          IN  /\ Matches(catalogo.d, item.Product) # {}
              /\ c[2] = item.Quantity.n
                          * catalogo.d[FirstMatch(catalogo.d, item.Product)].price.n
    /\ \A r \in 1..Len(RowFields(console)) :
          LET row == RowFields(console)[r]
          IN  row[3] = catalogo.d[FirstMatch(catalogo.d, row[1])].price
    /\ \A r \in 1..Len(RowFields(file.lines)) :
          LET row == RowFields(file.lines)[r]
          IN  row[3] = catalogo.d[FirstMatch(catalogo.d, row[1])].price
    /\ \A k \in 1..Len(ventas.d) :
          LET item == ventas.d[k]
              noPrice == /\ Present(item.Product) /\ Present(item.Quantity)
                         /\ Matches(catalogo.d, item.Product) # {}
                         /\ catalogo.d[FirstMatch(catalogo.d, item.Product)].price
                               = PyNone
          IN  Processed(k) =>
                 (noPrice <=> \E e \in 1..Len(errSrc) :
                                 errSrc[e] = k /\ errores[e].kind = "no_price")

C7_Witness ==
    /\ pc = "done"
    /\ Len(catalogo.d) = 2
    /\ catalogo.d[1].title = catalogo.d[2].title
    /\ catalogo.d[1].price # catalogo.d[2].price
    /\ catalogo.d[1].price # PyNone
    /\ catalogo.d[2].price # PyNone
    /\ Len(contrib) > 0
    /\ Len(RowFields(file.lines)) > 0

C7_WitnessNoPrice ==
    /\ Len(catalogo.d) = 2
    /\ catalogo.d[1].title = catalogo.d[2].title
    /\ catalogo.d[1].price = PyNone
    /\ catalogo.d[2].price # PyNone
    /\ \E e \in 1..Len(errores) : errores[e].kind = "no_price"

\* C8: in a completed run the console and SalesResults.txt carry the same
\* errors, the same rows, the same total and the same elapsed time, in the
\* same order; the file holds nothing of an earlier run, and it is opened
\* once, after the last line of the console was printed.
C8_SinksAgree ==
    /\ fileOpens <= 1
    /\ fileOpens = 0 => file = StaleFile
    /\ fileOpens = 1 =>
          /\ pc = "done"
          /\ Len(console) > 0
          /\ console[Len(console)] = ElapsedLine(tiempo)
    /\ pc = "done" =>
          /\ fileOpens = 1
          /\ file.exists
          /\ LinesOfKind(file.lines, {"stale"}) = {}
          /\ ErrorsOf(file.lines) = ErrorsOf(console)
          /\ ErrorsOf(console) = errores
          /\ RowFields(file.lines) = RowFields(console)
          /\ Cardinality(LinesOfKind(console, {"total"})) = 1
          /\ Cardinality(LinesOfKind(console, {"elapsed"})) = 1
          /\ {file.lines[k] : k \in LinesOfKind(file.lines, {"total", "elapsed"})}
                = {console[k] : k \in LinesOfKind(console, {"total", "elapsed"})}
          /\ Cardinality(LinesOfKind(file.lines, {"total"})) = 1
          /\ Cardinality(LinesOfKind(file.lines, {"elapsed"})) = 1

C8_Witness ==
    /\ pc = "done"
    /\ Len(errores) > 0
    /\ Len(RowFields(console)) > 0
    /\ Len(RowFields(file.lines)) > 0

\* C9: calcular_costo_total never raises on a malformed sales record, such as
\* one with a non-numeric Quantity; it returns None only when the catalog or
\* the sales collection is None, and then leaves errores as it was.
C9_NeverRaises ==
    /\ pc # "raised_calc"
    /\ (pc = "calc_ret" /\ costo_total = PyNone) =>
          /\ catalogo.none \/ ventas.none
          /\ errores = errores0

\* C10: every step of calcular_costo_total leaves the catalog and the sales
\* collection as they are and only appends to errores: the list before the
\* step, and the list the caller passed in, are prefixes of the list after.
C10_Frame ==
    [][/\ catalogo' = catalogo
       /\ ventas' = ventas
       /\ IsPrefix(errores, errores')
       /\ IsPrefix(errores0, errores')]_vars

C10_Witness ==
    /\ pc = "calc_ret"
    /\ errores0 # <<>>
    /\ Len(errores) = Len(errores0) + MaxSales
    /\ errores[Len(errores)] # PriorError

=============================================================================
